---- MODULE Spec2Model ----
(***************************************************************************)
(* A model of main_ui.py of LRC-Video-Generator: the main window's job     *)
(* pipeline.  The UI thread runs one handler at a time (each handler is    *)
(* one action); VideoWorker, PreviewWorker and AudioInfoWorker run on      *)
(* their own threads and talk to the UI thread through Qt's queued         *)
(* signals, modelled as one FIFO queue of events.                          *)
(*                                                                         *)
(* Texts are sequences of tokens, so that the test of generation_finished  *)
(* for the success marker is a real substring test; the Chinese texts of   *)
(* the program are written in English.  Times are slider ticks (1/100 s).  *)
(***************************************************************************)
EXTENDS Integers, Sequences, FiniteSets, TLC

\* ------------------------------------------------------------------ bounds
\* callbacks (status_update / progress_update) the engine makes in one job
MaxCalls == 2
\* edits the user makes to the style controls
MaxEdits == 1
\* duration probes in flight at once
MaxProbes == 2
\* project documents the user loads
MaxLoads == 1

\* ------------------------------------------------------------------ values
None == "<none>"
EmptyText == << >>

Roles == {"audio", "cover", "lrc"}
\* the assets checked in another order
RoleOrder_cover_first == <<"cover", "audio", "lrc">>
\* iteration order of the dict literal in _gather_parameters
RoleOrder == <<"audio", "cover", "lrc">>
\* the names the warning uses: 音频, 封面, 歌词
RoleDesc == [audio |-> "audio", cover |-> "cover", lrc |-> "lyric"]

\* what the file dialog of select_file can return for each role
FileChoices == [audio |-> {"a1.mp3", "a2.mp3"}, cover |-> {"c.png"}, lrc |-> {"l.lrc"}]
AssetFiles == FileChoices["audio"] \cup FileChoices["cover"] \cup FileChoices["lrc"]

\* the output of ffprobe for each audio file, in slider ticks
ProbedDuration == [p \in FileChoices["audio"] |-> IF p = "a1.mp3" THEN 2 ELSE 1]

\* names os.urandom can give a scratch file, and the video output paths
ScratchNames == {"preview_1.png", "preview_2.png"}
OutputPaths == {"out.mp4"}
\* what can be found at an output path
Artifacts == {"absent", "empty", "invalid", "valid"}

\* values the engine passes to progress_update, and texts to status_update
PercentInputs == {-1, 0, 50, 101}
StatusTexts == {<<"ffmpeg: frame">>}
\* texts of the exceptions the engine raises
\* the marker generation_finished looks for: 成功
SuccessMarker == "SUCCESS"
EngineErrors == {<<"ffmpeg exited with code 1">>, <<"un", SuccessMarker, "ful write">>}

\* what parse_bilingual_lrc_with_metadata can find in a lyric file
\* (the title and the artist; "" for a key the file does not have)
NoMetadata == [ti |-> "", ar |-> ""]
MetadataChoices == {NoMetadata, [ti |-> "Song", ar |-> ""], [ti |-> "Song", ar |-> "Band"],
                    [ti |-> "", ar |-> "Band"]}

Workers == {"video", "preview"}

ComboNames == {"background_anim", "text_anim", "cover_anim", "hw_accel",
               "font_primary", "font_secondary"}
SpinNames == {"font_size_primary", "font_size_secondary", "outline_width"}
ColorKeys == {"color_primary", "color_secondary", "outline_color"}
SettingsKeys == ComboNames \cup SpinNames \cup ColorKeys \cup {"ffmpeg_path"}
FontChoices == {<< >>, <<"A.ttf", "B.ttf">>}
FfmpegChoices == {"/opt/ffmpeg"}
ColorChoices == {"#ff0000"}

\* ------------------------------------------------------------------ project documents
\* A project document as json.load returns it.  parsed: the text is JSON and an
\* object; version, file_paths and settings: the values of these keys, Absent for
\* a key the document does not have; extra: its unrecognized top-level keys;
\* wrong: the keys whose value has another type than save_project writes (the
\* value itself is then of no interest).
Absent == [absent |-> TRUE]
EmptyDict == [k \in {} |-> ""]
Document(version, paths, s, extra, wrong) ==
    [parsed |-> TRUE, version |-> version, file_paths |-> paths, settings |-> s,
     extra |-> extra, wrong |-> wrong]
Unparsable ==
    [parsed |-> FALSE, version |-> 0, file_paths |-> Absent, settings |-> Absent,
     extra |-> {}, wrong |-> {}]
\* no document at the path save_project writes to
NoDocument == [missing |-> TRUE]
NoFields == [nothing |-> TRUE]
\* the path save_project writes to
SavedPath == "saved.kproj"

VARIABLES
    file_paths,          \* self.file_paths: role -> path
    disk,                \* the asset files that exist
    lrc_metadata,        \* self.lrc_metadata
    audio_duration,      \* self.audio_duration
    preview_slider,      \* self.preview_slider: value and maximum
    probes,              \* AudioInfoWorker threads that have not finished
    font_files,          \* the fonts populate_fonts found
    combo,               \* currentText of each combo box
    spin,                \* value of each spin box
    settings,            \* the QSettings store
    ffmpeg_path,         \* self.ffmpeg_path
    edits,               \* style edits made so far
    generate_button,     \* self.generate_button.isEnabled()
    preview_button,      \* self.preview_button.isEnabled()
    progress_bar,        \* self.progress_bar.value()
    preview_image_path,  \* self.preview_image_path
    files,               \* what is at each scratch path
    undeletable,         \* scratch files os.remove cannot delete (held open, read-only)
    temp_dir,            \* self.temp_dir exists as a directory
    worker,              \* self.video_worker / self.preview_worker
    handed,              \* the record each worker's constructor was given
    calls,               \* the callbacks the engine made in each worker's job
    sent,                \* the status and progress signals each worker's job emitted
    uncaught,            \* workers whose run() let an exception escape
    queue,               \* queued signals on their way to the UI thread
    last,                \* what the last UI handler showed: boxes and log lines
    project_file,        \* the document save_project wrote, as json.load reads it
    saved_fields,        \* the fields of the window when save_project wrote it
    loads                \* project documents loaded so far

assetVars == <<file_paths, disk, lrc_metadata, audio_duration, preview_slider, probes>>
styleVars == <<font_files, combo, spin, settings, ffmpeg_path, edits>>
buttonVars == <<generate_button, preview_button>>
jobVars == <<worker, handed, calls, sent, uncaught>>
scratchVars == <<preview_image_path, files, undeletable, temp_dir>>
projectVars == <<project_file, saved_fields, loads>>
vars == <<assetVars, styleVars, buttonVars, progress_bar, scratchVars, jobVars, queue, last,
          projectVars>>

\* ------------------------------------------------------------------ helpers
\* dict.get(key): None when the key is absent
Get(d, k) == IF k \in DOMAIN d THEN d[k] ELSE None
\* Python truthiness of a string that may be None, and of a text
Truthy(v) == v # None /\ v # ""
TruthyText(text) == text # EmptyText
\* `marker in text` for a text of tokens
Contains(text, marker) == \E i \in 1..Len(text) : text[i] = marker
Range(s) == {s[i] : i \in 1..Len(s)}
RECURSIVE SelectSeq2(_, _, _)
\* the events of a queue that come from one source with one signal
SelectSeq2(q, src, sigs) ==
    IF q = << >> THEN << >>
    ELSE IF q[1].src = src /\ q[1].sig \in sigs
         THEN <<q[1]>> \o SelectSeq2(Tail(q), src, sigs)
         ELSE SelectSeq2(Tail(q), src, sigs)

\* a queued signal; the UI thread handles them in the order they were emitted
Event(sig, src, val) == [sig |-> sig, src |-> src, val |-> val]
\* what a UI handler showed: its message boxes and the lines it logged
Shown(handler, boxes, logs) == [handler |-> handler, boxes |-> boxes, logs |-> logs]
Box(icon, title, text) == [icon |-> icon, title |-> title, text |-> text]

\* the items of each combo box, in the order they were added
ComboItems(fonts) ==
    [background_anim |-> <<"bg_none", "bg_zoom">>,
     text_anim |-> <<"text_fade", "text_slide">>,
     cover_anim |-> <<"cover_static", "cover_spin">>,
     hw_accel |-> <<"x264", "h264_nvenc">>,
     font_primary |-> fonts,
     font_secondary |-> fonts]
\* currentText of a combo box nobody has touched: its first item, or ""
FirstItem(items) == IF items = << >> THEN "" ELSE items[1]

\* the defaults of _create_font_style_row, _create_style_group and load_settings
DefaultSpin == [font_size_primary |-> 56, font_size_secondary |-> 48, outline_width |-> 3]
DefaultColor == [color_primary |-> "#FFFFFF", color_secondary |-> "#DDDDDD",
                 outline_color |-> "#000000"]
SpinChoices == [font_size_primary |-> {56, 60}, font_size_secondary |-> {48, 50},
                outline_width |-> {3, 0}]
\* the range of a new QSlider and the value of a new QProgressBar
SliderDefaultMax == 99
ProgressBarReset == 0 - 1
ProgressBarMax == 100

\* a worker slot before its first job and after its thread has ended
NoParams == [nothing |-> TRUE]
NoResult == [raised |-> FALSE, artifact |-> "none"]
NoWorker == [pc |-> "none", params |-> NoParams, last_percent |-> 0 - 1, result |-> NoResult]

\* ------------------------------------------------------------------ Init
\* MainWindow.__init__ on a first run: an empty QSettings store, so every control
\* has its default; populate_fonts found fonts or none
Init ==
    /\ file_paths = [r \in Roles |-> ""]
    /\ disk = AssetFiles
    /\ lrc_metadata = NoMetadata
    /\ audio_duration = 0
    /\ preview_slider = [value |-> 0, maximum |-> SliderDefaultMax]
    /\ probes = << >>
    /\ font_files \in FontChoices
    /\ combo = [c \in ComboNames |-> FirstItem(ComboItems(font_files)[c])]
    /\ spin = DefaultSpin
    /\ settings = [k \in SettingsKeys |->
                     IF k \in ColorKeys THEN DefaultColor[k] ELSE None]
    /\ ffmpeg_path = "ffmpeg"
    /\ edits = 0
    /\ generate_button = TRUE
    /\ preview_button = TRUE
    /\ progress_bar = ProgressBarReset
    /\ preview_image_path = ""
    /\ files = [p \in ScratchNames |-> "absent"]
    /\ undeletable = {}
    /\ temp_dir = TRUE
    /\ worker = [w \in Workers |-> NoWorker]
    /\ handed = [w \in Workers |-> NoParams]
    /\ calls = [w \in Workers |-> << >>]
    /\ sent = [w \in Workers |-> << >>]
    /\ uncaught = {}
    /\ queue = << >>
    /\ last = Shown("__init__", << >>, << >>)
    /\ project_file = NoDocument
    /\ saved_fields = NoFields
    /\ loads = 0

\* ------------------------------------------------------------------ assets

\* d[key] = value on a dict that may lack the key
DictSet(d, k, v) == [x \in DOMAIN d \cup {k} |-> IF x = k THEN v ELSE d[x]]

\* QSlider.setRange(0, max): the value is brought back into the range
SetRange(slider, max) ==
    [value |-> IF slider.value > max THEN max ELSE slider.value, maximum |-> max]

\* the probes whose result on_audio_info_finished has not handled yet
ProbesPending == Len(probes) + Len(SelectSeq2(queue, "audio", {"finished"}))

\* get_audio_duration: one more AudioInfoWorker, started at once
GetAudioDuration(audio_path) ==
    Append(probes, [ffmpeg_path |-> ffmpeg_path, audio_path |-> audio_path])

\* select_file(key): the dialog returned path ("" when it was cancelled); for a
\* lyric file parse_lrc_file finds md, or fails when parsed is FALSE
select_file(key, path, parsed, md) ==
    /\ key \in Roles
    /\ path = "" \/ path \in disk
    /\ IF path = ""
       THEN /\ UNCHANGED <<file_paths, probes, lrc_metadata>>
            /\ last' = Shown("select_file", << >>, << >>)
       ELSE /\ file_paths' = DictSet(file_paths, key, path)
            /\ IF key = "audio"
               THEN /\ ProbesPending < MaxProbes
                    /\ probes' = GetAudioDuration(path)
                    /\ UNCHANGED lrc_metadata
                    /\ last' = Shown("select_file", << >>, <<<<"probing the duration">>>>)
               ELSE IF key = "lrc"
               THEN /\ lrc_metadata' = IF parsed THEN md ELSE NoMetadata
                    /\ UNCHANGED probes
                    /\ last' = Shown("select_file", << >>,
                                     IF parsed THEN <<<<"lrc metadata parsed">>>>
                                     ELSE <<<<"lrc metadata failed">>>>)
               ELSE /\ UNCHANGED <<probes, lrc_metadata>>
                    /\ last' = Shown("select_file", << >>, << >>)
    /\ UNCHANGED <<disk, audio_duration, preview_slider, styleVars, buttonVars,
                   progress_bar, scratchVars, jobVars, queue>>
    /\ UNCHANGED projectVars

\* somebody outside the program deletes an asset file
ExternalDelete(path) ==
    /\ path \in disk
    /\ disk' = disk \ {path}
    /\ UNCHANGED <<file_paths, lrc_metadata, audio_duration, preview_slider, probes,
                   styleVars, buttonVars, progress_bar, scratchVars,
                   jobVars, queue, last>>
    /\ UNCHANGED projectVars

\* how the ffprobe call of AudioInfoWorker.run can end
ProbeOutcomes == {"ok", "no_tool", "exit_code", "unparsable"}
\* the exception the try block of AudioInfoWorker.run raises: subprocess.run finds
\* no ffprobe, ffprobe exits with an error (as it does for a missing audio file),
\* or float() cannot read its output
ProbeException(outcome, audio_path) ==
    IF outcome = "no_tool" THEN "FileNotFoundError"
    ELSE IF outcome = "exit_code" \/ audio_path \notin disk THEN "CalledProcessError"
    ELSE IF outcome = "unparsable" THEN "ValueError"
    ELSE "none"

\* the except clause of check_ffmpeg in place of `except Exception`
ProbeCatches_subprocess(class) == class \in {"CalledProcessError", "FileNotFoundError"}

\* `except Exception` of AudioInfoWorker.run
ProbeCatches(class) == class \in {"CalledProcessError", "FileNotFoundError", "ValueError"}

\* the signals AudioInfoWorker.run emits for a probe of audio_path
ProbeEvents(outcome, audio_path) ==
    LET class == ProbeException(outcome, audio_path)
        error_msg == <<"duration probe failed: ", audio_path>>
    IN IF class = "none"
       THEN <<Event("finished", "audio",
                    [duration |-> ProbedDuration[audio_path], error |-> EmptyText])>>
       ELSE IF ProbeCatches(class)
       THEN <<Event("status", "audio", error_msg),
              Event("finished", "audio", [duration |-> 0, error |-> error_msg])>>
       ELSE << >>

\* AudioInfoWorker.run of the i-th probe in flight
AudioInfoWorker_run(i, outcome) ==
    /\ i \in 1..Len(probes)
    /\ outcome \in ProbeOutcomes
    /\ probes' = SubSeq(probes, 1, i - 1) \o SubSeq(probes, i + 1, Len(probes))
    /\ queue' = queue \o ProbeEvents(outcome, probes[i].audio_path)
    /\ UNCHANGED <<file_paths, disk, lrc_metadata, audio_duration, preview_slider,
                   styleVars, buttonVars, progress_bar, scratchVars,
                   jobVars, last>>
    /\ UNCHANGED projectVars

\* on_audio_info_finished(duration, error_message)
on_audio_info_finished ==
    /\ queue # << >>
    /\ queue[1].sig = "finished" /\ queue[1].src = "audio"
    /\ LET duration == queue[1].val.duration
           error_message == queue[1].val.error
       IN IF TruthyText(error_message)
          THEN /\ audio_duration' = 0
               /\ preview_slider' = SetRange(preview_slider, 0)
               /\ last' = Shown("on_audio_info_finished", << >>, <<error_message>>)
          ELSE /\ audio_duration' = duration
               /\ preview_slider' = SetRange(preview_slider, duration)
               /\ last' = Shown("on_audio_info_finished", << >>, <<<<"audio loaded">>>>)
    /\ queue' = Tail(queue)
    /\ UNCHANGED <<file_paths, disk, lrc_metadata, probes, styleVars, buttonVars,
                   progress_bar, scratchVars, jobVars>>
    /\ UNCHANGED projectVars

\* the user drags the preview slider
SliderMoved(value) ==
    /\ value \in 0..preview_slider.maximum
    /\ value # preview_slider.value
    /\ preview_slider' = [preview_slider EXCEPT !.value = value]
    /\ UNCHANGED <<file_paths, disk, lrc_metadata, audio_duration, probes, styleVars,
                   buttonVars, progress_bar, scratchVars, jobVars,
                   queue, last>>
    /\ UNCHANGED projectVars

\* ------------------------------------------------------------------ style
\* the user picks another item of a combo box or another value of a spin box
EditCombo(c, text) ==
    /\ edits < MaxEdits
    /\ c \in ComboNames /\ text \in Range(ComboItems(font_files)[c])
    /\ text # combo[c]
    /\ combo' = [combo EXCEPT ![c] = text]
    /\ edits' = edits + 1
    /\ UNCHANGED <<assetVars, font_files, spin, settings, ffmpeg_path, buttonVars,
                   progress_bar, scratchVars, jobVars, queue, last>>
    /\ UNCHANGED projectVars

EditSpin(sp, value) ==
    /\ edits < MaxEdits
    /\ sp \in SpinNames /\ value \in SpinChoices[sp]
    /\ value # spin[sp]
    /\ spin' = [spin EXCEPT ![sp] = value]
    /\ edits' = edits + 1
    /\ UNCHANGED <<assetVars, font_files, combo, settings, ffmpeg_path, buttonVars,
                   progress_bar, scratchVars, jobVars, queue, last>>
    /\ UNCHANGED projectVars

\* select_color(key): the colour dialog returned a valid colour
select_color(key, color) ==
    /\ edits < MaxEdits
    /\ key \in ColorKeys /\ color \in ColorChoices
    /\ settings' = [settings EXCEPT ![key] = color]
    /\ edits' = edits + 1
    /\ UNCHANGED <<assetVars, font_files, combo, spin, ffmpeg_path, buttonVars,
                   progress_bar, scratchVars, jobVars, queue, last>>
    /\ UNCHANGED projectVars

\* check_ffmpeg: the lines it logs and the box it shows, given whether ffprobe ran
CheckFfmpegLogs(ok) ==
    <<<<"ffmpeg path: ", ffmpeg_path>>,
      IF ok THEN <<"ffmpeg found">> ELSE <<"ffmpeg not found">>>>
CheckFfmpegBoxes(ok) ==
    IF ok THEN << >> ELSE <<Box("warning", "dependency", "ffmpeg")>>

\* select_ffmpeg_path: the dialog returned path; check_ffmpeg follows
select_ffmpeg_path(path, ok) ==
    /\ edits < MaxEdits
    /\ path \in FfmpegChoices
    /\ ffmpeg_path' = path
    /\ settings' = [settings EXCEPT !["ffmpeg_path"] = path]
    /\ edits' = edits + 1
    /\ last' = Shown("select_ffmpeg_path", CheckFfmpegBoxes(ok),
                     <<<<"ffmpeg path set">>, <<"ffmpeg path: ", path>>,
                       IF ok THEN <<"ffmpeg found">> ELSE <<"ffmpeg not found">>>>)
    /\ UNCHANGED <<assetVars, font_files, combo, spin, buttonVars,
                   progress_bar, scratchVars, jobVars, queue>>
    /\ UNCHANGED projectVars

\* ------------------------------------------------------------------ projects
\* the keys of a dict that are in S
Restrict(d, S) == [k \in (DOMAIN d) \cap S |-> d[k]]
IsAbsent(v) == "absent" \in DOMAIN v

\* a complete document, as save_project writes it, with no value at its default
FullSettings ==
    [font_primary |-> "B.ttf", font_secondary |-> "B.ttf",
     font_size_primary |-> 60, font_size_secondary |-> 50,
     color_primary |-> "#ff0000", color_secondary |-> "#ff0000",
     outline_color |-> "#ff0000", outline_width |-> 0,
     ffmpeg_path |-> "/opt/ffmpeg",
     background_anim |-> "bg_zoom", text_anim |-> "text_slide",
     cover_anim |-> "cover_spin", hw_accel |-> "h264_nvenc"]
FullPaths == [audio |-> "a1.mp3", cover |-> "c.png", lrc |-> "l.lrc"]
\* the settings of a later version: a key this version does not know
FutureSettings ==
    [k \in {"text_anim", "font_size_primary", "glow"} |->
       IF k = "glow" THEN "soft" ELSE FullSettings[k]]

\* the project files the load dialog can return, besides the one save_project wrote
\* the asset paths of a later version: one role of this version and one it does
\* not know
FuturePaths == [cover |-> "c.png", video |-> "v.mp4"]
ProjectPaths == {"broken.kproj", "partial.kproj", "future.kproj",
                 "badsettings.kproj", "badsize.kproj"}
ProjectFile(path) ==
    CASE path = "broken.kproj" -> Unparsable
      [] path = "partial.kproj" ->
            Document(3, Absent,
                     Restrict(FullSettings, {"text_anim", "font_size_primary"}), {}, {})
      [] path = "future.kproj" ->
            Document(4, FuturePaths, FutureSettings, {"plugins"}, {})
      [] path = "badsettings.kproj" ->
            Document(3, FullPaths, Absent, {}, {"settings"})
      [] path = "badsize.kproj" ->
            Document(3, Absent,
                     Restrict(FullSettings, {"text_anim", "font_size_secondary"}),
                     {}, {"font_size_secondary"})

\* the document at a path of the load dialog
ReadProject(path) == IF path = SavedPath THEN project_file ELSE ProjectFile(path)

\* the fields of the settings / asset-path model
Fields ==
    [file_paths |-> file_paths, combo |-> combo, spin |-> spin,
     colors |-> [k \in ColorKeys |-> settings[k]], ffmpeg_path |-> ffmpeg_path]

\* project_data of save_project, after json.dump and json.load: strings and
\* integers come back as they were written
SaveDoc ==
    Document(3, file_paths,
             [k \in SettingsKeys |->
                IF k \in ComboNames THEN combo[k]
                ELSE IF k \in SpinNames THEN spin[k]
                ELSE IF k \in ColorKeys THEN settings[k]
                ELSE ffmpeg_path],
             {}, {})

\* default_filename of save_project, looking at the artist first
DefaultFilename_artist_first(md) ==
    IF Truthy(md.ar)
    THEN IF Truthy(md.ti) THEN <<md.ar, " - ", md.ti, ".kproj">> ELSE <<md.ar, ".kproj">>
    ELSE <<"untitled.kproj">>

\* default_filename of save_project for the lyric metadata md
DefaultFilename(md) ==
    IF Truthy(md.ti)
    THEN IF Truthy(md.ar) THEN <<md.ar, " - ", md.ti, ".kproj">> ELSE <<md.ti, ".kproj">>
    ELSE <<"untitled.kproj">>

\* QFileDialog.getSaveFileName as save_project opens it
SaveDialog == Box("dialog", "save project", DefaultFilename(lrc_metadata))

\* save_project: the save dialog returned path ("" when it was cancelled); written
\* tells whether open and json.dump succeeded
save_project(path, written) ==
    /\ path \in {"", SavedPath}
    /\ IF path = ""
       THEN /\ UNCHANGED <<project_file, saved_fields>>
            /\ last' = Shown("save_project", <<SaveDialog>>, <<<<"save cancelled">>>>)
       ELSE IF written
       THEN /\ project_file' = SaveDoc
            /\ saved_fields' = Fields
            /\ last' = Shown("save_project", <<SaveDialog>>,
                             <<<<"project saved: ", path>>>>)
       ELSE /\ UNCHANGED <<project_file, saved_fields>>
            /\ last' = Shown("save_project",
                             <<SaveDialog, Box("critical", "error", "save failed")>>,
                             << >>)
    /\ UNCHANGED <<assetVars, styleVars, buttonVars, progress_bar, scratchVars,
                   jobVars, queue, loads>>

\* _set_combo_text(combo, text): currentText of combo box c afterwards
SetComboText(c, text) ==
    IF Truthy(text) /\ text \in Range(ComboItems(font_files)[c]) THEN text ELSE combo[c]

\* the ranges of the spin boxes, and QSpinBox.setValue, which clamps
SpinRange == [font_size_primary |-> <<10, 300>>, font_size_secondary |-> <<10, 300>>,
              outline_width |-> <<0, 20>>]
\* setValue with the range of the font sizes for every spin box
SpinSetValue_one_range(sp, value) ==
    IF value < 10 THEN 10 ELSE IF value > 300 THEN 300 ELSE value
SpinSetValue(sp, value) ==
    IF value < SpinRange[sp][1] THEN SpinRange[sp][1]
    ELSE IF value > SpinRange[sp][2] THEN SpinRange[sp][2]
    ELSE value
\* the order in which load_project sets the spin boxes
SpinOrder == <<"font_size_primary", "font_size_secondary", "outline_width">>
SpinIndex(sp) == CHOOSE i \in 1..Len(SpinOrder) : SpinOrder[i] = sp

\* parse_lrc_file(lrc_path): the metadata of the lyric file, {} when it cannot be read
ParseLrc(lrc_path) ==
    IF lrc_path \in disk THEN [ti |-> "Song", ar |-> "Band"] ELSE NoMetadata

\* a loader that rejects a document of another version or with keys it does not know
LoadFailure_strict(doc) ==
    IF ~doc.parsed THEN "json"
    ELSE IF doc.version # 3 \/ doc.extra # {} THEN "version"
    ELSE IF "settings" \in doc.wrong THEN "settings"
    ELSE IF \E i \in 1..Len(SpinOrder) : SpinOrder[i] \in doc.wrong THEN "spin"
    ELSE "none"

\* where the try block of load_project raises: json.load, the first s.get on a
\* settings value that is no dict, setValue on a value that is no number
LoadFailure(doc) ==
    IF ~doc.parsed THEN "json"
    ELSE IF "settings" \in doc.wrong THEN "settings"
    ELSE IF \E i \in 1..Len(SpinOrder) : SpinOrder[i] \in doc.wrong THEN "spin"
    ELSE "none"
\* the first spin box whose setValue raises
FirstWrongSpin(doc) ==
    IF \E i \in 1..Len(SpinOrder) : SpinOrder[i] \in doc.wrong
    THEN CHOOSE i \in 1..Len(SpinOrder) :
            /\ SpinOrder[i] \in doc.wrong
            /\ \A j \in 1..(i - 1) : SpinOrder[j] \notin doc.wrong
    ELSE Len(SpinOrder) + 1

\* the try block of load_project on the document doc: how it ends, and every field
\* it has assigned by then
LoadResult(doc) ==
    LET failure == LoadFailure(doc)
        s == IF IsAbsent(doc.settings) THEN EmptyDict ELSE doc.settings
        paths == IF failure = "json" THEN file_paths
                 ELSE IF IsAbsent(doc.file_paths) THEN EmptyDict
                 ELSE doc.file_paths
        audio_file == IF failure = "json" THEN None ELSE Get(paths, "audio")
        lrc_file == IF failure = "json" THEN None ELSE Get(paths, "lrc")
    IN [failure |-> failure,
        file_paths |-> paths,
        probe |-> IF Truthy(audio_file) THEN audio_file ELSE "",
        lrc |-> IF Truthy(lrc_file) THEN lrc_file ELSE "",
        lrc_metadata |-> IF Truthy(lrc_file) THEN ParseLrc(lrc_file) ELSE lrc_metadata,
        combo |-> [c \in ComboNames |->
                     IF failure \in {"spin", "none"} THEN SetComboText(c, Get(s, c))
                     ELSE combo[c]],
        spin |-> [sp \in SpinNames |->
                    IF failure \in {"spin", "none"} /\ SpinIndex(sp) < FirstWrongSpin(doc)
                    THEN SpinSetValue(sp, IF sp \in DOMAIN s THEN s[sp]
                                          ELSE DefaultSpin[sp])
                    ELSE spin[sp]],
        settings |-> [k \in SettingsKeys |->
                        IF failure = "none" /\ k \in ColorKeys /\ Truthy(Get(s, k))
                        THEN s[k] ELSE settings[k]],
        ffmpeg_path |-> IF failure = "none" /\ Truthy(Get(s, "ffmpeg_path"))
                        THEN s["ffmpeg_path"] ELSE ffmpeg_path]

\* the lines load_project has logged and the box it shows
LoadLogs(path, r) ==
    (IF r.probe # "" THEN <<<<"probing the duration">>>> ELSE << >>)
    \o (IF r.lrc = "" THEN << >>
        ELSE IF r.lrc \in disk THEN <<<<"lrc metadata parsed">>>>
        ELSE <<<<"lrc metadata failed">>>>)
    \o (IF r.failure = "none" THEN <<<<"project loaded: ", path>>>> ELSE << >>)
LoadBoxes(r) ==
    IF r.failure = "none" THEN << >>
    ELSE <<Box("critical", "error", "load failed")>>

\* load_project: the load dialog returned path ("" when it was cancelled)
load_project(path) ==
    /\ path = "" \/ path \in ProjectPaths \/ (path = SavedPath /\ project_file # NoDocument)
    /\ IF path = ""
       THEN /\ UNCHANGED <<file_paths, probes, lrc_metadata, combo, spin, settings,
                           ffmpeg_path, loads>>
            /\ last' = Shown("load_project", << >>, <<<<"load cancelled">>>>)
       ELSE LET r == LoadResult(ReadProject(path))
            IN /\ loads < MaxLoads
               /\ loads' = loads + 1
               /\ r.probe # "" => ProbesPending < MaxProbes
               /\ file_paths' = r.file_paths
               /\ probes' = IF r.probe # "" THEN GetAudioDuration(r.probe) ELSE probes
               /\ lrc_metadata' = r.lrc_metadata
               /\ combo' = r.combo
               /\ spin' = r.spin
               /\ settings' = r.settings
               /\ ffmpeg_path' = r.ffmpeg_path
               /\ last' = Shown("load_project", LoadBoxes(r), LoadLogs(path, r))
    /\ UNCHANGED <<disk, audio_duration, preview_slider, font_files, edits, buttonVars,
                   progress_bar, scratchVars, jobVars, queue, project_file, saved_fields>>

\* ------------------------------------------------------------------ starting a job
\* set_ui_enabled that forgets the preview button
set_ui_enabled_generate_only(enabled) ==
    [generate_button |-> enabled, preview_button |-> TRUE]

\* set_ui_enabled(enabled): the state of the two start buttons
set_ui_enabled(enabled) == [generate_button |-> enabled, preview_button |-> enabled]

\* QProgressBar.setValue: a value outside the range is ignored
SetValue(bar, value) == IF value >= 0 /\ value <= ProgressBarMax THEN value ELSE bar

\* `not path or not os.path.exists(path)` of _gather_parameters
AssetInvalid(key) ==
    LET path == Get(file_paths, key) IN ~Truthy(path) \/ path \notin disk
RECURSIVE FirstInvalid(_, _)
\* the first role of order[i..] whose asset is invalid, or None
FirstInvalid(order, i) ==
    IF i > Len(order) THEN None
    ELSE IF AssetInvalid(order[i]) THEN order[i]
    ELSE FirstInvalid(order, i + 1)

\* _gather_parameters: the record, or the one box it shows before returning None
_gather_parameters ==
    LET bad == FirstInvalid(RoleOrder, 1)
    IN IF bad # None
       THEN [ok |-> FALSE, box |-> Box("warning", "input error", RoleDesc[bad])]
       ELSE IF ~Truthy(combo["font_primary"]) \/ ~Truthy(combo["font_secondary"])
       THEN [ok |-> FALSE, box |-> Box("critical", "font error", "font_dir")]
       ELSE [ok |-> TRUE,
             params |->
               [audio_path |-> file_paths["audio"],
                cover_path |-> file_paths["cover"],
                lrc_path |-> file_paths["lrc"],
                font_primary |-> <<"font_dir", combo["font_primary"]>>,
                font_size_primary |-> spin["font_size_primary"],
                font_secondary |-> <<"font_dir", combo["font_secondary"]>>,
                font_size_secondary |-> spin["font_size_secondary"],
                color_primary |-> settings["color_primary"],
                color_secondary |-> settings["color_secondary"],
                outline_color |-> settings["outline_color"],
                outline_width |-> spin["outline_width"],
                background_anim |-> combo["background_anim"],
                text_anim |-> combo["text_anim"],
                cover_anim |-> combo["cover_anim"],
                ffmpeg_path |-> ffmpeg_path]]

\* params[key] = value on the dict _gather_parameters returned
WithKey(params, key, value) ==
    [k \in DOMAIN params \cup {key} |-> IF k = key THEN value ELSE params[k]]

\* save_settings: the store afterwards
save_settings ==
    [k \in SettingsKeys |->
       IF k = "ffmpeg_path" THEN ffmpeg_path
       ELSE IF k \in {"background_anim", "text_anim", "cover_anim", "hw_accel"}
       THEN combo[k]
       ELSE settings[k]]

\* how far start_generation gets: it returns after a failed check_ffmpeg, after a
\* failed _gather_parameters, and after a cancelled file dialog
StartStage(ok, gathered, output_path) ==
    IF ~ok THEN "no_ffmpeg"
    ELSE IF ~gathered.ok THEN "invalid"
    ELSE IF output_path = "" THEN "cancelled"
    ELSE "start"

\* save_settings called before the checks
SettingsAfterStart_always(stage) == save_settings

\* the store after start_generation got as far as stage
SettingsAfterStart(stage) == IF stage = "start" THEN save_settings ELSE settings

\* the boxes a start handler shows before it returns early
StartBoxes(ok, gathered) ==
    IF ~ok THEN CheckFfmpegBoxes(ok)
    ELSE IF ~gathered.ok THEN <<gathered.box>>
    ELSE << >>

\* a worker thread that was constructed with params and started
Started(params) ==
    [pc |-> "started", params |-> params, last_percent |-> 0 - 1, result |-> NoResult]

\* start_generation: check_ffmpeg answered ok, the save dialog returned output_path
start_generation(ok, output_path) ==
    /\ generate_button
    /\ output_path = "" \/ output_path \in OutputPaths
    /\ LET gathered == _gather_parameters
           stage == StartStage(ok, gathered, output_path)
       IN /\ settings' = SettingsAfterStart(stage)
          /\ IF stage = "start"
             THEN LET params == WithKey(WithKey(gathered.params, "output_path", output_path),
                                        "hw_accel", combo["hw_accel"])
                  IN /\ generate_button' = set_ui_enabled(FALSE).generate_button
                     /\ preview_button' = set_ui_enabled(FALSE).preview_button
                     /\ progress_bar' = SetValue(progress_bar, 0)
                     /\ worker' = [worker EXCEPT !["video"] = Started(params)]
                     /\ handed' = [handed EXCEPT !["video"] = params]
                     /\ calls' = [calls EXCEPT !["video"] = << >>]
                     /\ sent' = [sent EXCEPT !["video"] = << >>]
                     /\ last' = Shown("start_generation", << >>,
                                      <<<<"parameters valid, starting">>>>)
             ELSE /\ UNCHANGED <<buttonVars, progress_bar, worker, handed, calls, sent>>
                  /\ last' = Shown("start_generation", StartBoxes(ok, gathered),
                                   CheckFfmpegLogs(ok))
    /\ UNCHANGED <<assetVars, font_files, combo, spin, ffmpeg_path, edits,
                   scratchVars, uncaught, queue>>
    /\ UNCHANGED projectVars

\* generate_preview: check_ffmpeg answered ok, os.urandom named the scratch file
generate_preview(ok, name) ==
    /\ preview_button
    /\ name \in ScratchNames
    /\ LET gathered == _gather_parameters
           stage == StartStage(ok, gathered, name)
       IN IF stage = "start"
          THEN LET params == WithKey(WithKey(gathered.params, "output_image_path", name),
                                     "preview_time", preview_slider.value)
               IN /\ preview_image_path' = name
                  /\ generate_button' = set_ui_enabled(FALSE).generate_button
                  /\ preview_button' = set_ui_enabled(FALSE).preview_button
                  /\ worker' = [worker EXCEPT !["preview"] = Started(params)]
                  /\ handed' = [handed EXCEPT !["preview"] = params]
                  /\ calls' = [calls EXCEPT !["preview"] = << >>]
                  /\ sent' = [sent EXCEPT !["preview"] = << >>]
                  /\ last' = Shown("generate_preview", << >>,
                                   CheckFfmpegLogs(ok) \o <<<<"preview starts">>>>)
          ELSE /\ UNCHANGED <<preview_image_path, buttonVars, worker, handed, calls, sent>>
               /\ last' = Shown("generate_preview", StartBoxes(ok, gathered),
                                CheckFfmpegLogs(ok))
    /\ UNCHANGED <<assetVars, styleVars, progress_bar, files, undeletable, temp_dir,
                   uncaught, queue>>
    /\ UNCHANGED projectVars

\* ------------------------------------------------------------------ the workers
\* the texts of the terminal messages: VideoWorker's success text holds the marker
VideoSuccess == <<SuccessMarker, "video generated">>
VideoError(text) == <<"error: ">> \o text
PreviewError(text) == <<"preview error: ">> \o text
PreviewInvalid == <<"preview image invalid">>

\* exceptions: a class and a text; all classes here derive from Exception
ExceptionClasses == {"RuntimeError", "AttributeError", "FileNotFoundError"}
NoException == [class |-> "none", text |-> EmptyText]
EngineExceptions == {[class |-> "RuntimeError", text |-> e] : e \in EngineErrors}
NoProgressSignal == [class |-> "AttributeError", text |-> <<"no attribute 'progress'">>]
NoPreviewFile == [class |-> "FileNotFoundError", text |-> <<"ffmpeg made no preview">>]

\* the signals each worker class declares
Signals == [video |-> {"progress", "status", "finished"},
            preview |-> {"status", "finished"}]

\* QtProglogLogger.__init__: _last_percent of a new relay
NewLastPercent == 0 - 1

\* progress_update with `>=` for `>`
progress_update_ge(w, last_percent, percent) ==
    IF percent >= last_percent
    THEN IF "progress" \in Signals[w]
         THEN [emit |-> TRUE, exc |-> NoException, last_percent |-> percent]
         ELSE [emit |-> FALSE, exc |-> NoProgressSignal, last_percent |-> last_percent]
    ELSE [emit |-> FALSE, exc |-> NoException, last_percent |-> last_percent]

\* QtProglogLogger.progress_update(percent) on the relay of worker w: whether the
\* value is emitted, the exception the emit raises, and _last_percent afterwards
progress_update(w, last_percent, percent) ==
    IF percent > last_percent
    THEN IF "progress" \in Signals[w]
         THEN [emit |-> TRUE, exc |-> NoException, last_percent |-> percent]
         ELSE [emit |-> FALSE, exc |-> NoProgressSignal, last_percent |-> last_percent]
    ELSE [emit |-> FALSE, exc |-> NoException, last_percent |-> last_percent]

\* `except OSError` for `except Exception`
RunCatches_OSError(class) == class = "FileNotFoundError"

\* an except clause of run that lets an AttributeError pass
RunCatches_no_AttributeError(class) == class \in ExceptionClasses \ {"AttributeError"}

\* `except Exception` of the two run methods
RunCatches(class) == class \in ExceptionClasses

\* what is at the output path of worker w: the scratch file of a preview job; the
\* program never looks at the video a render job wrote
OutputNow(w) ==
    IF w = "preview" THEN files[worker[w].params["output_image_path"]] ELSE "absent"
\* the engine of worker w leaves artifact at the output path
EngineWrites(w, artifact) ==
    IF w = "preview"
    THEN [files EXCEPT ![worker[w].params["output_image_path"]] = artifact]
    ELSE files

\* the scratch files that cannot be deleted once the engine of worker w has left
\* artifact at the output path
EngineHolds(w, artifact, held) ==
    IF w = "preview" /\ artifact # "absent" /\ held
    THEN undeletable \cup {worker[w].params["output_image_path"]}
    ELSE IF w = "preview"
    THEN undeletable \ {worker[w].params["output_image_path"]}
    ELSE undeletable

\* the scratch directory once the engine of worker w has left artifact at the
\* output path: a file in it means the directory is there
EngineMakesDir(w, artifact) ==
    IF w = "preview" /\ artifact # "absent" THEN TRUE ELSE temp_dir

\* the exception that ends the try block of run, given the one the engine call
\* raised and what is at the output path: PreviewWorker checks the file
TryException(w, exc, artifact) ==
    IF exc.class # "none" THEN exc
    ELSE IF w = "preview" /\ artifact \in {"absent", "empty"} THEN NoPreviewFile
    ELSE NoException

\* PreviewWorker.run without the `else` after the isNull test: an invalid image
\* is reported and then emitted as a result too
Finished_no_else(w, exc, artifact) ==
    LET e == TryException(w, exc, artifact)
    IN IF e.class # "none"
       THEN IF w = "video"
            THEN <<Event("finished", w, VideoError(e.text))>>
            ELSE <<Event("finished", w,
                         [pixmap |-> "null", error |-> PreviewError(e.text)])>>
       ELSE IF w = "video"
            THEN <<Event("finished", w, VideoSuccess)>>
            ELSE IF artifact = "invalid"
            THEN <<Event("finished", w, [pixmap |-> "null", error |-> PreviewInvalid]),
                   Event("finished", w, [pixmap |-> "image", error |-> EmptyText])>>
            ELSE <<Event("finished", w, [pixmap |-> "image", error |-> EmptyText])>>

\* the finished signal run emits: the payload, or nothing when the exception escapes
Finished(w, exc, artifact) ==
    LET e == TryException(w, exc, artifact)
    IN IF e.class # "none"
       THEN IF RunCatches(e.class)
            THEN IF w = "video"
                 THEN <<Event("finished", w, VideoError(e.text))>>
                 ELSE <<Event("finished", w,
                              [pixmap |-> "null", error |-> PreviewError(e.text)])>>
            ELSE << >>
       ELSE IF w = "video"
            THEN <<Event("finished", w, VideoSuccess)>>
            ELSE IF artifact = "invalid"
            THEN <<Event("finished", w, [pixmap |-> "null", error |-> PreviewInvalid])>>
            ELSE <<Event("finished", w, [pixmap |-> "image", error |-> EmptyText])>>

\* the end of run: the engine call returned or raised exc, artifact is at the
\* output path, and run emits finished
EndRun(w, exc, artifact) ==
    LET terminal == Finished(w, exc, artifact)
    IN /\ worker' = [worker EXCEPT ![w].pc = "finished",
                                   ![w].result = [raised |-> exc.class # "none",
                                                  artifact |-> artifact]]
       /\ queue' = queue \o terminal
       /\ uncaught' = IF terminal = << >> THEN uncaught \cup {w} ELSE uncaught

\* run, up to the engine call: a new relay goes into the record
run_begin(w) ==
    /\ worker[w].pc = "started"
    /\ worker' = [worker EXCEPT ![w].pc = "engine",
                                ![w].last_percent = NewLastPercent,
                                ![w].params = WithKey(@, "logger", w)]
    /\ UNCHANGED <<assetVars, styleVars, buttonVars, progress_bar, scratchVars, handed, calls, sent, uncaught, queue, last>>
    /\ UNCHANGED projectVars

\* the engine calls logger.status_update(message)
status_update(w, message) ==
    /\ worker[w].pc = "engine"
    /\ Len(calls[w]) < MaxCalls
    /\ calls' = [calls EXCEPT ![w] = Append(@, [fn |-> "status_update", percent |-> 0,
                                                 message |-> message])]
    /\ sent' = [sent EXCEPT ![w] = Append(@, Event("status", w, message))]
    /\ queue' = Append(queue, Event("status", w, message))
    /\ UNCHANGED <<assetVars, styleVars, buttonVars, progress_bar, scratchVars, worker, handed, uncaught, last>>
    /\ UNCHANGED projectVars

\* the engine calls logger.progress_update(percent); an exception of the emit
\* leaves the engine call and ends run
engine_progress(w, percent) ==
    /\ worker[w].pc = "engine"
    /\ Len(calls[w]) < MaxCalls
    /\ calls' = [calls EXCEPT ![w] = Append(@, [fn |-> "progress_update",
                                                 percent |-> percent,
                                                 message |-> EmptyText])]
    /\ LET r == progress_update(w, worker[w].last_percent, percent)
       IN IF r.exc.class # "none"
          THEN /\ EndRun(w, r.exc, OutputNow(w))
               /\ UNCHANGED sent
          ELSE /\ worker' = [worker EXCEPT ![w].last_percent = r.last_percent]
               /\ sent' = [sent EXCEPT ![w] =
                             IF r.emit THEN Append(@, Event("progress", w, percent))
                             ELSE @]
               /\ queue' = IF r.emit THEN Append(queue, Event("progress", w, percent))
                           ELSE queue
               /\ UNCHANGED uncaught
    /\ UNCHANGED <<assetVars, styleVars, buttonVars, progress_bar, scratchVars, handed, last>>
    /\ UNCHANGED projectVars

\* the engine call returns, leaving artifact at the output path; held tells
\* whether something keeps the file from being deleted
engine_return(w, artifact, held) ==
    /\ worker[w].pc = "engine"
    /\ artifact \in Artifacts
    /\ files' = EngineWrites(w, artifact)
    /\ undeletable' = EngineHolds(w, artifact, held)
    /\ temp_dir' = EngineMakesDir(w, artifact)
    /\ EndRun(w, NoException, artifact)
    /\ UNCHANGED <<assetVars, styleVars, buttonVars, progress_bar, preview_image_path,
                   handed, calls, sent, last>>
    /\ UNCHANGED projectVars

\* the engine call raises exc, leaving artifact at the output path
engine_raise(w, exc, artifact, held) ==
    /\ worker[w].pc = "engine"
    /\ exc \in EngineExceptions
    /\ artifact \in Artifacts
    /\ files' = EngineWrites(w, artifact)
    /\ undeletable' = EngineHolds(w, artifact, held)
    /\ temp_dir' = EngineMakesDir(w, artifact)
    /\ EndRun(w, exc, artifact)
    /\ UNCHANGED <<assetVars, styleVars, buttonVars, progress_bar, preview_image_path,
                   handed, calls, sent, last>>
    /\ UNCHANGED projectVars

\* ------------------------------------------------------------------ the UI's slots
\* the thread of worker w has ended and its terminal message was handled: nothing
\* reads the worker object again
Reap(w) ==
    /\ worker' = [worker EXCEPT ![w] = NoWorker]
    /\ handed' = [handed EXCEPT ![w] = NoParams]
    /\ calls' = [calls EXCEPT ![w] = << >>]
    /\ sent' = [sent EXCEPT ![w] = << >>]

\* progress_bar.setValue, the slot of VideoWorker.progress
progress_bar_setValue ==
    /\ queue # << >>
    /\ queue[1].sig = "progress"
    /\ progress_bar' = SetValue(progress_bar, queue[1].val)
    /\ queue' = Tail(queue)
    /\ last' = Shown("progress_bar.setValue", << >>, << >>)
    /\ UNCHANGED <<assetVars, styleVars, buttonVars, scratchVars, jobVars>>
    /\ UNCHANGED projectVars

\* log_message, the slot of every status signal
log_message ==
    /\ queue # << >>
    /\ queue[1].sig = "status"
    /\ queue' = Tail(queue)
    /\ last' = Shown("log_message", << >>, <<queue[1].val>>)
    /\ UNCHANGED <<assetVars, styleVars, buttonVars, progress_bar, scratchVars, jobVars>>
    /\ UNCHANGED projectVars

\* `"成功" in message` of generation_finished
IsSuccess(message) == Contains(message, SuccessMarker)

\* generation_finished(message), the slot of VideoWorker.finished
generation_finished ==
    /\ queue # << >>
    /\ queue[1].sig = "finished" /\ queue[1].src = "video"
    /\ LET message == queue[1].val
       IN /\ generate_button' = set_ui_enabled(TRUE).generate_button
          /\ preview_button' = set_ui_enabled(TRUE).preview_button
          /\ IF IsSuccess(message)
             THEN /\ progress_bar' = SetValue(progress_bar, ProgressBarMax)
                  /\ last' = Shown("generation_finished",
                                   <<Box("information", "done", message)>>, <<message>>)
             ELSE /\ progress_bar' = SetValue(progress_bar, 0)
                  /\ last' = Shown("generation_finished",
                                   <<Box("critical", "failed", message)>>, <<message>>)
    /\ queue' = Tail(queue)
    /\ Reap("video")
    /\ UNCHANGED <<assetVars, styleVars, scratchVars, uncaught>>
    /\ UNCHANGED projectVars

\* os.remove(path) inside `try: ... except OSError: pass`
Remove(path) ==
    IF path \in undeletable THEN files ELSE [files EXCEPT ![path] = "absent"]

\* the scratch file removed only in the branch of a successful preview
RemoveScratch_on_success(error_message) ==
    IF ~TruthyText(error_message) /\ Truthy(preview_image_path)
       /\ files[preview_image_path] # "absent"
    THEN Remove(preview_image_path)
    ELSE files

\* the end of on_preview_finished: the scratch file is removed when it exists,
\* whatever error_message says
RemoveScratch(error_message) ==
    IF Truthy(preview_image_path) /\ files[preview_image_path] # "absent"
    THEN Remove(preview_image_path)
    ELSE files

\* on_preview_finished(pixmap, error_message), the slot of PreviewWorker.finished
on_preview_finished ==
    /\ queue # << >>
    /\ queue[1].sig = "finished" /\ queue[1].src = "preview"
    /\ LET error_message == queue[1].val.error
       IN /\ generate_button' = set_ui_enabled(TRUE).generate_button
          /\ preview_button' = set_ui_enabled(TRUE).preview_button
          /\ IF TruthyText(error_message)
             THEN last' = Shown("on_preview_finished",
                                <<Box("critical", "preview failed", error_message)>>,
                                <<<<"preview failed: ">> \o error_message>>)
             ELSE last' = Shown("on_preview_finished", << >>, <<<<"preview done">>>>)
          /\ files' = RemoveScratch(error_message)
    /\ queue' = Tail(queue)
    /\ Reap("preview")
    /\ UNCHANGED <<assetVars, styleVars, progress_bar, preview_image_path, undeletable,
                   temp_dir, uncaught>>
    /\ UNCHANGED projectVars

\* shutil.rmtree(temp_dir): every scratch file is gone, unless one cannot be
\* deleted; then rmtree raises OSError somewhere on its way
AfterRmtree ==
    IF \E f \in undeletable : files[f] # "absent"
    THEN {g \in [ScratchNames -> Artifacts] :
            \A f \in ScratchNames :
               /\ f \in undeletable => g[f] = files[f]
               /\ g[f] \in {files[f], "absent"}}
    ELSE {[f \in ScratchNames |-> "absent"]}

\* another process removes the scratch directory and all it holds (a cleaner of
\* the system's temporary directory) while the window is open
ExternalRmtree ==
    /\ temp_dir
    /\ \A f \in undeletable : files[f] = "absent"
    /\ temp_dir' = FALSE
    /\ files' = [f \in ScratchNames |-> "absent"]
    /\ UNCHANGED <<assetVars, styleVars, buttonVars, progress_bar, preview_image_path,
                   undeletable, jobVars, queue, last, projectVars>>

\* the window is open: closeEvent has not run
Open == last.handler # "closeEvent"

\* closeEvent: save_settings, then the scratch directory is removed
closeEvent ==
    /\ Open
    /\ settings' = save_settings
    /\ files' \in AfterRmtree
    /\ temp_dir' = (temp_dir /\ \E f \in undeletable : files[f] # "absent")
    /\ last' = Shown("closeEvent", << >>,
                     <<<<"settings saved">>,
                       IF ~temp_dir \/ \E f \in undeletable : files[f] # "absent"
                       THEN <<"temp dir not cleaned">> ELSE <<"temp dir cleaned">>>>)
    /\ UNCHANGED <<assetVars, font_files, combo, spin, ffmpeg_path, edits, buttonVars,
                   progress_bar, preview_image_path, undeletable, jobVars, queue,
                   projectVars>>

\* ------------------------------------------------------------------ specification
\* The job pipeline: the assets are selected once each and stay on disk; the
\* engine makes every call and ends in every way
Next ==
    \/ \E key \in Roles, path \in {"a1.mp3", "c.png", "l.lrc"} :
          /\ path \in FileChoices[key]
          /\ Get(file_paths, key) = ""
          /\ select_file(key, path, TRUE, [ti |-> "Song", ar |-> "Band"])
    \/ \E i \in 1..MaxProbes, outcome \in {"ok", "exit_code"} :
          AudioInfoWorker_run(i, outcome)
    \/ on_audio_info_finished
    \/ \E ok \in BOOLEAN, output_path \in OutputPaths \cup {""} :
          start_generation(ok, output_path)
    \/ \E ok \in BOOLEAN, name \in ScratchNames : generate_preview(ok, name)
    \/ \E w \in Workers : run_begin(w)
    \/ \E w \in Workers, message \in StatusTexts : status_update(w, message)
    \/ \E w \in Workers, percent \in PercentInputs : engine_progress(w, percent)
    \/ \E w \in Workers, artifact \in Artifacts, held \in BOOLEAN :
          /\ (w = "preview" /\ artifact # "absent") \/ ~held
          /\ engine_return(w, artifact, held)
    \/ \E w \in Workers, exc \in EngineExceptions, artifact \in Artifacts, held \in BOOLEAN :
          /\ (w = "preview" /\ artifact # "absent") \/ ~held
          /\ engine_raise(w, exc, artifact, held)
    \/ progress_bar_setValue
    \/ log_message
    \/ generation_finished
    \/ on_preview_finished

Spec == Init /\ [][Next]_vars

\* Starting a job from every input state: each asset is selected (once) or not,
\* and a selected file is deleted or not; fonts are there or not; the engine makes no
\* calls and leaves a good file or raises
NextInput ==
    \/ \E key \in Roles, path \in {"a1.mp3", "c.png", "l.lrc", ""} :
          /\ path = "" \/ path \in FileChoices[key]
          /\ Get(file_paths, key) = ""
          /\ select_file(key, path, TRUE, [ti |-> "Song", ar |-> "Band"])
    \/ \E key \in Roles : ExternalDelete(file_paths[key])
    \/ \E c \in ComboNames : \E text \in Range(ComboItems(font_files)[c]) :
          EditCombo(c, text)
    \/ \E sp \in SpinNames : \E value \in SpinChoices[sp] : EditSpin(sp, value)
    \/ \E key \in ColorKeys, color \in ColorChoices : select_color(key, color)
    \/ \E path \in FfmpegChoices, ok \in BOOLEAN : select_ffmpeg_path(path, ok)
    \/ \E i \in 1..MaxProbes : AudioInfoWorker_run(i, "ok")
    \/ on_audio_info_finished
    \/ \E ok \in BOOLEAN, output_path \in OutputPaths \cup {""} :
          start_generation(ok, output_path)
    \/ \E ok \in BOOLEAN, name \in {"preview_1.png"} : generate_preview(ok, name)
    \/ \E w \in Workers : run_begin(w)
    \/ \E w \in Workers : engine_return(w, "valid", FALSE)
    \/ \E w \in Workers, exc \in {[class |-> "RuntimeError",
                                   text |-> <<"ffmpeg exited with code 1">>]} :
          engine_raise(w, exc, "absent", FALSE)
    \/ log_message
    \/ generation_finished
    \/ on_preview_finished

SpecInput == Init /\ [][NextInput]_vars

\* Projects: the user selects assets, edits the style, saves a project document
\* and loads project documents
\* (a project is saved once, when every asset has been selected)
NextProject ==
    \/ \E key \in Roles, path \in {"a1.mp3", "c.png", "l.lrc"} :
          /\ path \in FileChoices[key]
          /\ ~Truthy(Get(file_paths, key))
          /\ select_file(key, path, TRUE, [ti |-> "Song", ar |-> "Band"])
    \/ \E c \in {"text_anim"} :
          \E text \in Range(ComboItems(font_files)[c]) : EditCombo(c, text)
    \/ \E sp \in {"outline_width"} :
          \E value \in SpinChoices[sp] : EditSpin(sp, value)
    \/ \E path \in FfmpegChoices : select_ffmpeg_path(path, TRUE)
    \/ /\ project_file = NoDocument
       /\ \A r \in Roles : Truthy(Get(file_paths, r))
       /\ \E path \in {"", SavedPath}, written \in BOOLEAN : save_project(path, written)
    \/ \E path \in ProjectPaths \cup {"", SavedPath} : load_project(path)
    \/ \E i \in 1..MaxProbes : AudioInfoWorker_run(i, "ok")
    \/ on_audio_info_finished

SpecProject == Init /\ [][NextProject]_vars

\* values the user drags the preview slider to
SliderInputs == {0, 1, 2, 99}

\* Previews and duration probes: the user selects audio files, the probes end in
\* every way, the user drags the slider, starts previews that end well, and
\* closes the window
NextProbe ==
    \/ \E key \in Roles, path \in AssetFiles :
          /\ Open /\ path \in FileChoices[key]
          /\ key = "audio" \/ Get(file_paths, key) = ""
          /\ select_file(key, path, TRUE, [ti |-> "Song", ar |-> "Band"])
    \/ \E i \in 1..MaxProbes, outcome \in ProbeOutcomes :
          Open /\ AudioInfoWorker_run(i, outcome)
    \/ Open /\ on_audio_info_finished
    \/ Open /\ log_message
    \/ \E value \in SliderInputs : Open /\ SliderMoved(value)
    \/ \E name \in {"preview_1.png"} : Open /\ generate_preview(TRUE, name)
    \/ Open /\ run_begin("preview")
    \/ \E held \in BOOLEAN : Open /\ engine_return("preview", "valid", held)
    \/ Open /\ on_preview_finished
    \/ closeEvent

SpecProbe == Init /\ [][NextProbe]_vars

\* The scratch directory: the assets are selected, another process removes the
\* directory, previews are started and end with or without an image
NextScratch ==
    \/ \E key \in Roles, path \in {"a1.mp3", "c.png", "l.lrc"} :
          /\ path \in FileChoices[key]
          /\ Get(file_paths, key) = ""
          /\ select_file(key, path, TRUE, [ti |-> "Song", ar |-> "Band"])
    \/ \E i \in 1..MaxProbes : AudioInfoWorker_run(i, "ok")
    \/ on_audio_info_finished
    \/ ExternalRmtree
    \/ \E name \in ScratchNames : generate_preview(TRUE, name)
    \/ run_begin("preview")
    \/ \E artifact \in {"absent", "valid"}, held \in BOOLEAN :
          /\ artifact # "absent" \/ ~held
          /\ engine_return("preview", artifact, held)
    \/ \E exc \in EngineExceptions : engine_raise("preview", exc, "absent", FALSE)
    \/ on_preview_finished

SpecScratch == Init /\ [][NextScratch]_vars

\* Saving: the user selects cover and lyric files, whose metadata is of every
\* kind, edits a size and saves the project
NextSave ==
    \/ \E key \in {"cover", "lrc"}, path \in AssetFiles, parsed \in BOOLEAN,
          md \in MetadataChoices :
          /\ path \in FileChoices[key]
          /\ parsed \/ md = NoMetadata
          /\ select_file(key, path, parsed, md)
    \/ \E value \in SpinChoices["font_size_primary"] : EditSpin("font_size_primary", value)
    \/ \E path \in {"", SavedPath}, written \in BOOLEAN : save_project(path, written)

SpecSave == Init /\ [][NextSave]_vars

\* the engine call of worker w ends: it returns, with or without an output, or
\* raises
EngineEnds(w) ==
    \/ \E artifact \in {"absent", "valid"} : engine_return(w, artifact, FALSE)
    \/ \E exc \in EngineExceptions : engine_raise(w, exc, "absent", FALSE)

\* Jobs from start to end: the assets are selected, jobs of both kinds are
\* started, the engine reports and ends, and the UI thread handles what is queued
NextLive ==
    \/ \E key \in Roles, path \in {"a1.mp3", "c.png", "l.lrc"} :
          /\ path \in FileChoices[key]
          /\ Get(file_paths, key) = ""
          /\ select_file(key, path, TRUE, [ti |-> "Song", ar |-> "Band"])
    \/ \E i \in 1..MaxProbes : AudioInfoWorker_run(i, "ok")
    \/ on_audio_info_finished
    \/ start_generation(TRUE, "out.mp4")
    \/ generate_preview(TRUE, "preview_1.png")
    \/ \E w \in Workers : run_begin(w)
    \/ \E w \in Workers, message \in StatusTexts : status_update(w, message)
    \/ \E w \in Workers : engine_progress(w, 50)
    \/ \E w \in Workers : EngineEnds(w)
    \/ progress_bar_setValue
    \/ log_message
    \/ generation_finished
    \/ on_preview_finished

\* QThread.start runs run; the engine call ends; the event loop of the UI thread
\* delivers every queued signal
Fairness ==
    /\ \A w \in Workers : WF_vars(run_begin(w))
    /\ \A w \in Workers : WF_vars(EngineEnds(w))
    /\ WF_vars(on_audio_info_finished)
    /\ WF_vars(progress_bar_setValue)
    /\ WF_vars(log_message)
    /\ WF_vars(generation_finished)
    /\ WF_vars(on_preview_finished)

SpecLive == Init /\ [][NextLive]_vars /\ Fairness

\* ------------------------------------------------------------------ claims
\* a job of worker w is Running: started, terminal message not handled yet
Running(w) == worker[w].pc # "none"
\* the queued terminal messages of worker w, and all its queued signals
Terminals(w) == SelectSeq2(queue, w, {"finished"})
FromWorker(w) == SelectSeq2(queue, w, {"status", "progress", "finished"})
RECURSIVE Values(_)
\* the payloads of a sequence of events
Values(events) ==
    IF events = << >> THEN << >> ELSE <<events[1].val>> \o Values(Tail(events))
\* the progress values worker w's job has forwarded, in order
Forwarded(w) == Values(SelectSeq2(sent[w], w, {"progress"}))
\* a terminal message that reports a failure
IsFailure(event) ==
    IF event.src = "video" THEN event.val[1] = "error: "
    ELSE event.val.pixmap = "null" /\ event.val.error # EmptyText
\* a step of start_generation or generate_preview that showed something new
StartStep == last' # last /\ last'.handler \in {"start_generation", "generate_preview"}
FfmpegFound == \E i \in 1..Len(last.logs) : last.logs[i] = <<"ffmpeg found">>

\* C1: at most one job, render or preview, is Running in any state, and a job
\* is started only in a state where no job is Running.
C1_OneJobAtATime ==
    /\ [](Cardinality({w \in Workers : Running(w)}) <= 1)
    /\ [][\A w \in Workers :
            (worker'[w].pc = "started" /\ worker[w].pc # "started")
               => \A v \in Workers : ~Running(v)]_vars
\* a preview job is in its engine call and both start buttons are disabled
C1_Witness ==
    worker["preview"].pc = "engine" /\ ~generate_button /\ ~preview_button

\* C2: the progress values a job forwards are strictly increasing, and
\* _last_percent is the last value forwarded (-1 before the first): a value that
\* is not greater is dropped and leaves _last_percent alone.
C2_StrictlyIncreasing ==
    \A w \in Workers :
        LET ps == Forwarded(w)
        IN /\ \A i \in 1..(Len(ps) - 1) : ps[i] < ps[i + 1]
           /\ worker[w].pc \in {"engine", "finished"}
                 => worker[w].last_percent = IF ps = << >> THEN 0 - 1 ELSE ps[Len(ps)]
\* the engine reported 50 and then 0: one value forwarded, one dropped
C2_Witness ==
    /\ Len(calls["video"]) = 2
    /\ calls["video"][1].fn = "progress_update" /\ calls["video"][1].percent = 50
    /\ calls["video"][2].fn = "progress_update" /\ calls["video"][2].percent = 0
    /\ Forwarded("video") = <<50>>

\* C3: every job has a new relay with _last_percent = -1, so a job whose first
\* report is a percent >= 0 (such as 0) forwards that percent, whatever the job
\* before it reported.
C3_FirstReportForwarded ==
    \A w \in Workers :
        /\ (worker[w].pc = "engine" /\ calls[w] = << >>) => worker[w].last_percent = 0 - 1
        /\ (calls[w] # << >> /\ calls[w][1].fn = "progress_update"
              /\ calls[w][1].percent >= 0)
             => (sent[w] # << >> /\ sent[w][1].sig = "progress"
                   /\ sent[w][1].val = calls[w][1].percent)

\* C4: a job whose run has ended has exactly one terminal message, queued behind
\* every status and progress signal of the job; a job that is still in run has
\* none; and a job stops being Running, and the buttons come back, only in the
\* step that handles its terminal message.
C4_StateOf(w) ==
    /\ worker[w].pc \in {"none", "started", "engine"} => Terminals(w) = << >>
    /\ worker[w].pc = "finished"
          => /\ Len(Terminals(w)) = 1
             /\ FromWorker(w)[Len(FromWorker(w))].sig = "finished"
C4_ExactlyOneTerminal ==
    /\ [](\A w \in Workers : C4_StateOf(w))
    /\ [][\A w \in Workers :
            ((Running(w) /\ (~Running(w))') \/ (~generate_button /\ generate_button'))
               => /\ queue # << >>
                  /\ queue[1].sig = "finished"
                  /\ queue' = Tail(queue)]_vars
\* a preview job has ended and its terminal message waits behind a status signal
C4_Witness ==
    /\ worker["preview"].pc = "finished"
    /\ Len(FromWorker("preview")) >= 2
    /\ FromWorker("preview")[1].sig = "status"

\* C5: no exception leaves run; a job whose engine call raised has one terminal
\* message, and it reports a failure.
C5_ExceptionsCaught ==
    /\ uncaught = {}
    /\ \A w \in Workers :
          (worker[w].pc = "finished" /\ worker[w].result.raised)
             => (Len(Terminals(w)) = 1 /\ IsFailure(Terminals(w)[1]))
\* the engine of a render job raised and the failure message is queued
C5_Witness ==
    /\ worker["video"].pc = "finished" /\ worker["video"].result.raised
    /\ Terminals("video") # << >> /\ IsFailure(Terminals("video")[1])

\* C6: a job, render or preview, whose engine call returned and left no file or
\* an empty file at the output path ends with a failure message.
C6_MissingOutputFails ==
    \A w \in Workers :
        (worker[w].pc = "finished" /\ ~worker[w].result.raised
           /\ worker[w].result.artifact \in {"absent", "empty"})
          => (Terminals(w) # << >> /\ IsFailure(Terminals(w)[1]))

\* C7: once on_preview_finished has run, nothing is at the scratch path of the
\* job, whatever its outcome.
C7_ScratchGone ==
    (last.handler = "on_preview_finished" /\ preview_image_path \in ScratchNames)
       => files[preview_image_path] = "absent"
\* C7, amended: once on_preview_finished has run, nothing is at the scratch path
\* of the job, whatever its outcome, unless os.remove could not delete the file.
C7_ScratchGoneUnlessUndeletable ==
    (last.handler = "on_preview_finished" /\ preview_image_path \in ScratchNames)
       => (files[preview_image_path] = "absent" \/ preview_image_path \in undeletable)
\* a failed preview was handled and its scratch file is gone
C7_Witness ==
    /\ last.handler = "on_preview_finished" /\ last.boxes # << >>
    /\ preview_image_path \in ScratchNames
    /\ files[preview_image_path] = "absent"

\* the first asset, in the order audio, cover, lyric, that is empty or not on disk
C8_Missing(key) ==
    Get(file_paths, key) \in {None, ""} \/ Get(file_paths, key) \notin disk
C8_First ==
    IF C8_Missing("audio") THEN "audio"
    ELSE IF C8_Missing("cover") THEN "cover"
    ELSE IF C8_Missing("lrc") THEN "lyric"
    ELSE None
C8_Reported ==
    /\ last'.boxes = <<Box("warning", "input error", C8_First)>>
    /\ UNCHANGED <<worker, handed, calls, queue>>
\* C8: a start with an asset that is empty or not on disk shows exactly one box,
\* the input error that names the first such asset, and starts no worker.
C8_FirstMissingAssetNamed ==
    [][(StartStep /\ C8_First # None) => C8_Reported]_vars
\* C8, amended: the same when check_ffmpeg has found FFmpeg; when it has not, the
\* one box shown is the FFmpeg warning, and no worker is started either.
C8_FirstMissingAssetNamedAfterFfmpeg ==
    [][(StartStep /\ C8_First # None)
          => IF FfmpegFound' THEN C8_Reported
             ELSE /\ last'.boxes = <<Box("warning", "dependency", "ffmpeg")>>
                  /\ UNCHANGED <<worker, handed, calls, queue>>]_vars
\* a start named the audio file, which was selected and then deleted, while no
\* cover was selected either
C8_Witness ==
    /\ last.handler = "start_generation"
    /\ last.boxes = <<Box("warning", "input error", "audio")>>
    /\ file_paths["audio"] # "" /\ file_paths["audio"] \notin disk
    /\ file_paths["cover"] = ""

\* C9: a start that ends with a validation box changes no state: no worker, the
\* buttons stay enabled, no scratch path, the store, the asset paths and every
\* style field as before.
C9_NoPartialState ==
    [][(StartStep /\ last'.boxes # << >>
          /\ last'.boxes[1].title \in {"input error", "font error"})
         => /\ generate_button' /\ preview_button'
            /\ \A w \in Workers : ~Running(w)'
            /\ UNCHANGED <<worker, handed, generate_button, preview_button,
                           preview_image_path, settings, file_paths, combo, spin,
                           ffmpeg_path, progress_bar, files, queue>>]_vars
\* start_generation ended with the font error while the store differs from what
\* save_settings would write
C9_Witness ==
    /\ last.handler = "start_generation"
    /\ last.boxes # << >> /\ last.boxes[1].title = "font error"
    /\ settings # save_settings
    /\ generate_button /\ preview_button

\* C10: while a job is Running, the record of its worker is the record that was
\* handed to the worker: same keys, same values.
C10_RecordNeverMutated ==
    \A w \in Workers : Running(w) => worker[w].params = handed[w]

\* every field of the settings / asset-path model has a value
C11_Populated(f) ==
    /\ \A r \in Roles : Truthy(Get(f.file_paths, r))
    /\ \A c \in ComboNames : Truthy(f.combo[c])
    /\ \A k \in ColorKeys : Truthy(f.colors[k])
    /\ Truthy(f.ffmpeg_path)
Logged(line) == \E i \in 1..Len(last.logs) : last.logs[i] = line
C12_PathOf(d, r) == IF Truthy(Get(d, r)) THEN Get(d, r) ELSE ""
\* the value of the style field a settings key stands for
C12_Style(k) ==
    [combo |-> IF k \in ComboNames THEN combo[k] ELSE "",
     spin |-> IF k \in SpinNames THEN spin[k] ELSE 0,
     color |-> IF k \in ColorKeys THEN settings[k] ELSE "",
     ffmpeg_path |-> IF k = "ffmpeg_path" THEN ffmpeg_path ELSE ""]
\* C12: a load that succeeds leaves every field whose key the document does not
\* have as it was: the asset paths when file_paths or a role is absent, and each
\* style field whose settings key is absent.
C12_AbsentKeysKept ==
    [][\A path \in ProjectPaths :
          (load_project(path) /\ LoadFailure(ProjectFile(path)) = "none")
             => LET doc == ProjectFile(path)
                IN /\ \A r \in Roles :
                        (IsAbsent(doc.file_paths) \/ r \notin DOMAIN doc.file_paths)
                           => C12_PathOf(file_paths', r) = C12_PathOf(file_paths, r)
                   /\ \A k \in SettingsKeys :
                        (IsAbsent(doc.settings) \/ k \notin DOMAIN doc.settings)
                           => C12_Style(k)' = C12_Style(k)]_vars

\* C13: a load that reports a failure has changed nothing: asset paths, style
\* fields, colours and engine path as before, no probe started, no lyric parse.
C13_FailedLoadChangesNothing ==
    [][\A path \in ProjectPaths :
          (load_project(path) /\ LoadFailure(ProjectFile(path)) # "none")
             => /\ last'.boxes # << >>
                /\ UNCHANGED <<file_paths, combo, spin, settings, ffmpeg_path,
                               probes, lrc_metadata>>]_vars

\* a document without the keys this version does not know, at this version
C14_Strip(doc) ==
    Document(3,
             IF IsAbsent(doc.file_paths) THEN Absent ELSE Restrict(doc.file_paths, Roles),
             IF IsAbsent(doc.settings) THEN Absent
             ELSE Restrict(doc.settings, SettingsKeys),
             {}, {})
RECURSIVE C15_Filter(_, _, _)
\* the calls of the engine as signals, without the progress values that are not
\* greater than every value before them
C15_Filter(cs, w, highest) ==
    IF cs = << >> THEN << >>
    ELSE IF cs[1].fn = "status_update"
    THEN <<Event("status", w, cs[1].message)>> \o C15_Filter(Tail(cs), w, highest)
    ELSE IF cs[1].percent > highest
    THEN <<Event("progress", w, cs[1].percent)>> \o C15_Filter(Tail(cs), w, cs[1].percent)
    ELSE C15_Filter(Tail(cs), w, highest)
\* the status and progress signals of worker w that are still queued
C15_Queued(w) == SelectSeq2(queue, w, {"status", "progress"})
\* C15: the status and progress signals of a job are the calls of its engine, in
\* order, less the progress values that do not increase; and the ones still on
\* their way to the UI thread are the last of them, in order.
C15_PassThrough ==
    \A w \in Workers :
        /\ sent[w] = C15_Filter(calls[w], w, 0 - 1)
        /\ Len(C15_Queued(w)) <= Len(sent[w])
        /\ C15_Queued(w) = SubSeq(sent[w], Len(sent[w]) - Len(C15_Queued(w)) + 1,
                                  Len(sent[w]))

\* C16: every progress value a job forwards is in 0..100, whatever the engine
\* reports.
C16_ProgressBounded ==
    \A w \in Workers : \A i \in 1..Len(sent[w]) :
        sent[w][i].sig = "progress" => sent[w][i].val \in 0..ProgressBarMax

\* C17: the preview time of a preview job is in 0..duration of the audio file
\* its record names.
C17_PreviewTimeInAudio ==
    Running("preview")
       => handed["preview"].preview_time
             \in 0..ProbedDuration[handed["preview"].audio_path]

\* C18: a probe ends with exactly one finished signal, the last it emits: duration
\* 0 and a message when the probe failed, the duration and no message otherwise.
C18_ProbeNeverRaises ==
    [][\A i \in 1..Len(probes), outcome \in ProbeOutcomes :
          AudioInfoWorker_run(i, outcome)
             => LET new == SubSeq(queue', Len(queue) + 1, Len(queue'))
                    fin == SelectSeq2(new, "audio", {"finished"})
                    audio_path == probes[i].audio_path
                    failed == outcome # "ok" \/ audio_path \notin disk
                IN /\ Len(fin) = 1
                   /\ new[Len(new)] = fin[1]
                   /\ failed => (fin[1].val.duration = 0 /\ fin[1].val.error # EmptyText)
                   /\ ~failed => (fin[1].val.duration = ProbedDuration[audio_path]
                                    /\ fin[1].val.error = EmptyText)]_vars
\* a failed probe's result waits in the queue behind its status signal
C18_Witness ==
    \E i \in 2..Len(queue) :
        /\ queue[i].src = "audio" /\ queue[i].sig = "finished"
        /\ queue[i].val.duration = 0 /\ queue[i].val.error # EmptyText
        /\ queue[i - 1].src = "audio" /\ queue[i - 1].sig = "status"

\* C19: when on_preview_finished could not delete the scratch file, it has logged
\* that, besides the line for the outcome of the job, and the start buttons are
\* enabled again.
C19_DeletionFailureLogged ==
    (last.handler = "on_preview_finished" /\ preview_image_path \in ScratchNames
       /\ files[preview_image_path] # "absent")
      => (Len(last.logs) > 1 /\ generate_button /\ preview_button)

\* C20: when start_generation or generate_preview has started a job, the store
\* holds the current value of every field: engine path, colours, animations,
\* hardware acceleration, fonts, sizes and outline width.
C20_StoreCurrentAfterStart ==
    [][(StartStep /\ \E w \in Workers : worker'[w].pc = "started" /\ worker[w].pc = "none")
          => /\ settings'["ffmpeg_path"] = ffmpeg_path'
             /\ \A k \in ComboNames : settings'[k] = combo'[k]
             /\ \A k \in SpinNames : settings'[k] # None]_vars

\* C21: when generate_preview has started a preview job, the directory of its
\* scratch path exists.
C21_ScratchDirAtStart ==
    [][(last'.handler = "generate_preview" /\ worker["preview"].pc = "none"
          /\ worker'["preview"].pc = "started")
          => temp_dir']_vars

\* C22: the name the save dialog proposes is "artist - title.kproj" when the lyric
\* metadata has both, "title.kproj" when it has the title only, and the fallback
\* name otherwise: no metadata, or an artist without a title.
C22_DefaultFilename ==
    [][(\E path \in {"", SavedPath}, written \in BOOLEAN : save_project(path, written))
          => LET ti == lrc_metadata.ti
                 ar == lrc_metadata.ar
                 proposed == last'.boxes[1].text
             IN /\ last'.boxes[1].icon = "dialog"
                /\ (ti # "" /\ ar # "") => proposed = <<ar, " - ", ti, ".kproj">>
                /\ (ti # "" /\ ar = "") => proposed = <<ti, ".kproj">>
                /\ ti = "" => proposed = <<"untitled.kproj">>]_vars
\* the dialog proposed the fallback name for a lyric file with an artist and no
\* title
C22_Witness ==
    /\ last.handler = "save_project"
    /\ lrc_metadata = [ti |-> "", ar |-> "Band"]
    /\ last.boxes[1].text = <<"untitled.kproj">>

\* C23: generation_finished shows the success dialog and sets the progress bar to
\* its maximum exactly when the engine call of the render job returned without
\* raising, whatever the text of the engine's error.
C23_ClassificationAgrees ==
    [][generation_finished
          => ((last'.boxes[1].icon = "information" /\ progress_bar' = ProgressBarMax)
                <=> ~worker["video"].result.raised)]_vars

\* C24: once every probe has finished and its result has been handled, the
\* duration and the range of the preview slider are those of the audio file
\* selected last (0 when its probe failed).
C24_NoStaleProbeResult ==
    (ProbesPending = 0 /\ Truthy(Get(file_paths, "audio")))
       => /\ audio_duration \in {0, ProbedDuration[file_paths["audio"]]}
          /\ preview_slider.maximum = audio_duration

\* C25: the two start buttons are enabled exactly when no job is Running, and a
\* job that is Running leads to a state where they are enabled again, whether
\* its engine call returns or raises.
C25_TriggersTrackJobs ==
    /\ [](/\ generate_button = preview_button
          /\ generate_button <=> \A w \in Workers : ~Running(w))
    /\ \A w \in Workers : Running(w) ~> (generate_button /\ preview_button)
\* a preview job has failed and the buttons are enabled again
C25_Witness ==
    /\ last.handler = "on_preview_finished" /\ last.boxes # << >>
    /\ generate_button /\ preview_button
    /\ \A w \in Workers : ~Running(w)

\* C26: a progress report of the engine in a preview job is forwarded when it is
\* greater than the last one forwarded and dropped otherwise, as in a render
\* job, and the job goes on: the engine call is not ended and no terminal
\* message is queued.
C26_PreviewProgressHandled ==
    [][\A percent \in PercentInputs :
          engine_progress("preview", percent)
             => /\ worker'["preview"].pc = "engine"
                /\ Terminals("preview")' = << >>
                /\ sent'["preview"] =
                      IF percent > worker["preview"].last_percent
                      THEN Append(sent["preview"], Event("progress", "preview", percent))
                      ELSE sent["preview"]]_vars

====
